---- MODULE Spec2Model ----
(***************************************************************************)
(* A model of the RAG chatbot repository: the knowledge-graph accessor     *)
(* (chatbot/knowledge_graph.py) and the chat orchestrator                  *)
(* (chatbot/rag_chatbot.py).                                               *)
(*                                                                         *)
(* Python strings that the code lower-cases, strips, searches or sorts are *)
(* sequences of code points (ASCII text); identifiers that the code only   *)
(* compares for equality (node ids, document names) are TLA+ strings.      *)
(* A JSON object is a record with a field "keys" (the keys present) and    *)
(* one field per key the code reads; an ordered mapping is a sequence of   *)
(* entries in insertion order.                                             *)
(***************************************************************************)
EXTENDS Integers, Sequences, FiniteSets, TLC

VARIABLES
    file,             \* what load() found at graph_path
    graph_data,       \* KnowledgeGraphLoader.graph_data
    nx_graph,         \* KnowledgeGraphLoader.nx_graph
    loaded,           \* what load() returned: "not_called", "True", "False"
    ret,              \* the last accessor call: operation, argument, outcome
    env,              \* the chatbot's environment: directories on disk
    knowledge_graph,  \* RAGChatbot.knowledge_graph
    vector_store,     \* RAGChatbot.vector_store
    qa_chain,         \* RAGChatbot.qa_chain
    pc,               \* "idle" (constructed), "prompt" (in chat_loop), "done"
    setup_completed,  \* history: some setup() call returned normally
    chain_created,    \* history: some setup() call assigned qa_chain
    last              \* the last call or console event on the chatbot

kgvars == <<file, graph_data, nx_graph, loaded, ret>>
botvars == <<env, knowledge_graph, vector_store, qa_chain, pc,
             setup_completed, chain_created, last>>
vars == <<file, graph_data, nx_graph, loaded, ret,
          env, knowledge_graph, vector_store, qa_chain, pc,
          setup_completed, chain_created, last>>

(***************************************************************************)
(* Bounds of the model.                                                    *)
(***************************************************************************)
MaxNodes == 2      \* entries of the input's 'nodes' list
MaxEdges == 2      \* entries of the input's 'edges' list
MaxDocs == 2       \* entries of the input's 'documents' mapping

(***************************************************************************)
(* Python values.                                                          *)
(***************************************************************************)
None == [kind |-> "None"]

RECURSIVE SeqsUpTo(_, _)
SeqsUpTo(S, n) ==
    IF n = 0 THEN {<<>>}
    ELSE LET shorter == SeqsUpTo(S, n - 1)
         IN  shorter \cup {Append(s, x) : s \in {t \in shorter : Len(t) = n - 1}, x \in S}

(***************************************************************************)
(* str: a string is the sequence of its code points. lower(), strip(), the *)
(* substring test and the ordering sorted() uses, on ASCII text.           *)
(***************************************************************************)
\* the printable ASCII characters in code-point order, from " " to "~" (the
\* grave accent, 96, has no TLA+ string literal and is spelled out)
Printable ==
    <<" ","!","\"","#","$","%","&","'","(",")","*","+",",","-",".","/",
      "0","1","2","3","4","5","6","7","8","9",":",";","<","=",">","?","@",
      "A","B","C","D","E","F","G","H","I","J","K","L","M",
      "N","O","P","Q","R","S","T","U","V","W","X","Y","Z",
      "[","\\","]","^","_","grave",
      "a","b","c","d","e","f","g","h","i","j","k","l","m",
      "n","o","p","q","r","s","t","u","v","w","x","y","z",
      "{","|","}","~">>

\* ord(ch) of a printable character: " " is 32
Code(ch) == 31 + (CHOOSE i \in 1..Len(Printable) : Printable[i] = ch)

\* the str written with the given printable characters
RECURSIVE Str(_)
Str(chars) == IF chars = <<>> THEN <<>> ELSE <<Code(Head(chars))>> \o Str(Tail(chars))

\* the characters str.strip() removes: \t \n \x0b \x0c \r, \x1c-\x1f, space
Whitespace == {9, 10, 11, 12, 13, 28, 29, 30, 31, 32}

\* "A".."Z" are 65..90, "a".."z" are 97..122
char_lower(c) == IF c >= 65 /\ c <= 90 THEN c + 32 ELSE c

RECURSIVE lower(_)
lower(s) == IF s = <<>> THEN <<>> ELSE <<char_lower(Head(s))>> \o lower(Tail(s))

RECURSIVE lstrip(_)
lstrip(s) == IF s # <<>> /\ Head(s) \in Whitespace THEN lstrip(Tail(s)) ELSE s

RECURSIVE rstrip(_)
rstrip(s) ==
    IF s # <<>> /\ s[Len(s)] \in Whitespace THEN rstrip(SubSeq(s, 1, Len(s) - 1)) ELSE s

strip(s) == rstrip(lstrip(s))

\* sub in s
contains(sub, s) ==
    \E i \in 0..(Len(s) - Len(sub)) : SubSeq(s, i + 1, i + Len(sub)) = sub

\* a < b for str: by code point, a proper prefix first
RECURSIVE str_lt(_, _)
str_lt(a, b) ==
    IF b = <<>> THEN FALSE
    ELSE IF a = <<>> THEN TRUE
    ELSE IF Head(a) = Head(b) THEN str_lt(Tail(a), Tail(b))
    ELSE Head(a) < Head(b)

\* sorted(list(S)) for a set S of str
RECURSIVE sorted(_)
sorted(S) ==
    IF S = {} THEN <<>>
    ELSE LET m == CHOOSE x \in S : \A y \in S \ {x} : str_lt(x, y)
         IN  <<m>> \o sorted(S \ {m})

\* x in xs, for a list
InList(x, xs) == \E i \in 1..Len(xs) : xs[i] = x

Range(xs) == {xs[i] : i \in 1..Len(xs)}

(***************************************************************************)
(* JSON values read from the graph file.                                   *)
(***************************************************************************)
NodeEntry(keys, id, type) == [keys |-> keys, id |-> id, type |-> type]
EdgeEntry(keys, source, target) == [keys |-> keys, source |-> source, target |-> target]
DocInfo(keys, topics, word_count) ==
    [kind |-> "object", keys |-> keys, topics |-> topics, word_count |-> word_count]
DocEntry(name, info) == [name |-> name, info |-> info]
Stats(keys, td, tn, te) ==
    [kind |-> "object", keys |-> keys,
     total_documents |-> td, total_nodes |-> tn, total_edges |-> te]
GraphObject(keys, nodes, edges, documents, statistics) ==
    [kind |-> "object", keys |-> keys, nodes |-> nodes, edges |-> edges,
     documents |-> documents, statistics |-> statistics]
JsonList(n) == [kind |-> "list", len |-> n]

EmptyDict == DocInfo({}, <<>>, 0)
EmptyStats == Stats({}, 0, 0, 0)

\* bool(v)
Truthy(v) ==
    CASE v.kind = "None" -> FALSE
      [] v.kind = "list" -> v.len > 0
      [] v.kind = "Graph" -> Len(v.nodes) > 0
      [] OTHER -> v.keys # {}

(***************************************************************************)
(* The inputs: what load() may find at graph_path.                         *)
(***************************************************************************)
NodeEntries ==
    { NodeEntry({"id", "type"}, "doc1", "document"),
      NodeEntry({"id", "type"}, "doc2", "document"),
      NodeEntry({"id", "type"}, "doc2", "topic"),
      NodeEntry({"id"}, "doc2", ""),
      NodeEntry({"type"}, "", "document") }

EdgeEntries ==
    { EdgeEntry({"source", "target"}, "doc1", "doc2"),
      EdgeEntry({"source", "target"}, "doc2", "doc1"),
      EdgeEntry({"source", "target"}, "doc1", "doc1"),
      EdgeEntry({"source", "target"}, "doc1", "t1"),
      EdgeEntry({"source"}, "doc1", ""),
      EdgeEntry({"target"}, "", "doc2") }

NLP == Str(<<"N", "L", "P">>)
nlp == Str(<<"n", "l", "p">>)
Data == Str(<<"D", "a", "t", "a">>)
ML == Str(<<"M", "L">>)
gpt4 == Str(<<"g", "p", "t", "4">>)
gpt3 == Str(<<"g", "p", "t", "3">>)
GPT_3 == Str(<<"G", "P", "T", "-", "3">>)
gpt_x == Str(<<"g", "p", "t", "_", "x">>)

TopicLists ==
    { <<>>, <<gpt4, gpt3, gpt_x, GPT_3>>, <<NLP, nlp>>, <<nlp, Data, NLP>>,
      <<ML, NLP>>, <<ML, ML>> }

DocInfos ==
    { DocInfo({"topics", "word_count"}, ts, 500) : ts \in TopicLists }
    \cup { EmptyDict,
           DocInfo({"word_count"}, <<>>, 120),
           DocInfo({"topics"}, <<ML>>, 0) }

\* the name of the i-th entry of 'documents' (JSON object keys are distinct)
DocNameAt == <<"doc2", "doc1", "doc3", "doc4">>

DocLists ==
    { [i \in 1..Len(infos) |-> DocEntry(DocNameAt[i], infos[i])] :
        infos \in SeqsUpTo(DocInfos, MaxDocs) }

FullStats == Stats({"total_documents", "total_nodes", "total_edges"}, 2, 3, 1)

BaseDocs ==
    << DocEntry("doc1", DocInfo({"topics", "word_count"}, <<ML, NLP>>, 500)),
       DocEntry("doc3", DocInfo({"topics", "word_count"}, <<Data>>, 40)) >>

Doc1 == NodeEntry({"id", "type"}, "doc1", "document")
Doc2 == NodeEntry({"id", "type"}, "doc2", "document")
Doc2Topic == NodeEntry({"id", "type"}, "doc2", "topic")
Edge12 == EdgeEntry({"source", "target"}, "doc1", "doc2")
Edge1T == EdgeEntry({"source", "target"}, "doc1", "t1")

BaseNodeLists == { <<>>, <<Doc1, Doc2>>, <<Doc2Topic, Doc1>> }
BaseEdgeLists == { <<>>, <<Edge12>>, <<Edge1T, Edge12>> }

JsonFile(value) == [kind |-> "json", value |-> value]

AllKeys == {"nodes", "edges", "documents", "statistics"}

\* files that vary the 'nodes' list, and files that vary the 'edges' list
GraphFiles ==
    { JsonFile(GraphObject(AllKeys, ns, es, BaseDocs, FullStats)) :
        ns \in SeqsUpTo(NodeEntries, MaxNodes), es \in BaseEdgeLists }
    \cup
    { JsonFile(GraphObject(AllKeys, ns, es, BaseDocs, FullStats)) :
        ns \in BaseNodeLists, es \in SeqsUpTo(EdgeEntries, MaxEdges) }

\* files that vary the 'documents' mapping
DocFiles ==
    { JsonFile(GraphObject(AllKeys, <<Doc1>>, <<>>, ds, FullStats)) : ds \in DocLists }

\* files that lack top-level keys, and files that are no JSON object
OtherFiles ==
    { [kind |-> "missing"], [kind |-> "corrupt"],
      JsonFile(JsonList(0)),
      JsonFile(JsonList(1)),
      JsonFile(GraphObject({}, <<>>, <<>>, <<>>, EmptyStats)),
      JsonFile(GraphObject({"documents"}, <<>>, <<>>, BaseDocs, EmptyStats)),
      JsonFile(GraphObject({"nodes", "documents", "statistics"},
                           <<Doc1>>, <<>>, BaseDocs, FullStats)),
      JsonFile(GraphObject({"edges", "documents", "statistics"},
                           <<>>, <<Edge12>>, BaseDocs, FullStats)),
      JsonFile(GraphObject({"nodes", "edges"}, <<Doc1, Doc2>>, <<Edge12>>,
                           <<>>, EmptyStats)),
      JsonFile(GraphObject({"nodes", "edges", "documents"}, <<Doc1>>, <<>>,
                           BaseDocs, EmptyStats)) }

Files == GraphFiles \cup DocFiles \cup OtherFiles

\* what a later load() on the same accessor may find at graph_path, besides
\* the file it found before
ReloadFiles ==
    { [kind |-> "missing"], [kind |-> "corrupt"],
      JsonFile(JsonList(0)),
      JsonFile(GraphObject({"documents"}, <<>>, <<>>, BaseDocs, EmptyStats)),
      JsonFile(GraphObject(AllKeys, <<Doc2Topic, Doc1>>, <<Edge1T, Edge12>>,
                           BaseDocs, FullStats)),
      JsonFile(GraphObject(AllKeys, <<Doc1>>, <<>>,
                           <<DocEntry("doc2", EmptyDict)>>, FullStats)) }

Unread == [kind |-> "unread"]

DocNames == {"doc1", "doc2", "doc3"}
Queries ==
    { <<>>, Str(<<"a">>), nlp, NLP, Str(<<"G", "p">>), Str(<<"m", "l">>), ML }

(***************************************************************************)
(* networkx.Graph as the accessor uses it: nodes in insertion order, each  *)
(* with its attribute dict and its adjacency dict (neighbors in insertion  *)
(* order, one entry per neighbor).                                         *)
(***************************************************************************)
NoAttrs == [keys |-> {}, type |-> ""]
Attrs(node) == [keys |-> node.keys \ {"id"}, type |-> node.type]

EmptyGraph == [kind |-> "Graph", nodes |-> <<>>]

\* n in G
HasNode(G, n) == \E i \in 1..Len(G.nodes) : G.nodes[i].id = n
NodeAt(G, n) == G.nodes[CHOOSE i \in 1..Len(G.nodes) : G.nodes[i].id = n]

\* dict.update: the keys given replace, the others stay
attrs_update_first_wins(old, new) ==
    [keys |-> old.keys \cup new.keys,
     type |-> IF "type" \in old.keys THEN old.type ELSE new.type]

attrs_update(old, new) ==
    [keys |-> old.keys \cup new.keys,
     type |-> IF "type" \in new.keys THEN new.type ELSE old.type]

\* Graph.add_node(n, **attrs)
add_node(G, n, attrs) ==
    IF HasNode(G, n)
    THEN [G EXCEPT !.nodes =
            [i \in 1..Len(G.nodes) |->
                IF G.nodes[i].id = n
                THEN [G.nodes[i] EXCEPT !.attrs = attrs_update(@, attrs)]
                ELSE G.nodes[i]]]
    ELSE [G EXCEPT !.nodes = Append(@, [id |-> n, attrs |-> attrs, nbrs |-> <<>>])]

\* _adj[u][v] = datadict
add_adj(G, u, v) ==
    [G EXCEPT !.nodes =
        [i \in 1..Len(G.nodes) |->
            IF G.nodes[i].id = u /\ ~InList(v, G.nodes[i].nbrs)
            THEN [G.nodes[i] EXCEPT !.nbrs = Append(@, v)]
            ELSE G.nodes[i]]]

\* Graph.add_edge(u, v, **attrs)
add_edge(G, u, v) ==
    LET G1 == IF HasNode(G, u) THEN G ELSE add_node(G, u, NoAttrs)
        G2 == IF HasNode(G1, v) THEN G1 ELSE add_node(G1, v, NoAttrs)
    IN  add_adj(add_adj(G2, u, v), v, u)

\* Graph.neighbors(n)
neighbors(G, n) == NodeAt(G, n).nbrs

(***************************************************************************)
(* KnowledgeGraphLoader.load                                               *)
(***************************************************************************)
\* for node in nodes: add_node(node['id'], ...); node['id'] may raise KeyError
RECURSIVE build_nodes(_, _)
build_nodes(G, entries) ==
    IF entries = <<>> THEN [raised |-> FALSE, graph |-> G]
    ELSE LET node == Head(entries)
         IN  IF "id" \notin node.keys
             THEN [raised |-> TRUE, graph |-> G]
             ELSE build_nodes(add_node(G, node.id, Attrs(node)), Tail(entries))

\* for edge in edges: add_edge(edge['source'], edge['target'], ...)
RECURSIVE build_edges(_, _)
build_edges(G, entries) ==
    IF entries = <<>> THEN [raised |-> FALSE, graph |-> G]
    ELSE LET edge == Head(entries)
         IN  IF "source" \notin edge.keys \/ "target" \notin edge.keys
             THEN [raised |-> TRUE, graph |-> G]
             ELSE build_edges(add_edge(G, edge.source, edge.target), Tail(entries))

LoadOutcome(r, gd, g) == [result |-> r, graph_data |-> gd, nx_graph |-> g]

\* load() on an accessor holding (gd0, g0), finding f at graph_path
load(f, gd0, g0) ==
    IF f.kind = "missing" THEN LoadOutcome(FALSE, gd0, g0)
    ELSE IF f.kind = "corrupt" THEN LoadOutcome(FALSE, gd0, g0)
    ELSE LET gd == f.value
         IN  IF gd.kind # "object"
             THEN LoadOutcome(FALSE, gd, EmptyGraph)
             ELSE LET n == build_nodes(EmptyGraph,
                                       IF "nodes" \in gd.keys THEN gd.nodes ELSE <<>>)
                      e == build_edges(n.graph,
                                       IF "edges" \in gd.keys THEN gd.edges ELSE <<>>)
                  IN  IF n.raised THEN LoadOutcome(FALSE, gd, n.graph)
                      ELSE IF e.raised THEN LoadOutcome(FALSE, gd, e.graph)
                      ELSE IF "nodes" \notin gd.keys \/ "edges" \notin gd.keys
                      THEN LoadOutcome(FALSE, gd, e.graph)
                      ELSE LoadOutcome(TRUE, gd, e.graph)

(***************************************************************************)
(* The queries. A call returns Return(v) or raises.                        *)
(***************************************************************************)
Return(v) == [raised |-> FALSE, value |-> v]
Raise(e) == [raised |-> TRUE, value |-> e]

\* graph_data.get('documents', {}) as the list of its items
documents_of(gd) == IF "documents" \in gd.keys THEN gd.documents ELSE <<>>

get_documents(gd) ==
    IF ~Truthy(gd) THEN Return(<<>>)
    ELSE IF gd.kind # "object" THEN Raise("AttributeError")
    ELSE Return([i \in 1..Len(documents_of(gd)) |-> documents_of(gd)[i].name])

get_document_info(gd, doc_name) ==
    IF ~Truthy(gd) THEN Return(None)
    ELSE IF gd.kind # "object" THEN Raise("AttributeError")
    ELSE LET ds == documents_of(gd)
         IN  IF \E i \in 1..Len(ds) : ds[i].name = doc_name
             THEN Return(ds[CHOOSE i \in 1..Len(ds) : ds[i].name = doc_name].info)
             ELSE Return(None)

related_any_type(G, doc_name) == neighbors(G, doc_name)

related_of(G, doc_name) ==
    SelectSeq(neighbors(G, doc_name),
              LAMBDA nb : LET node_data == NodeAt(G, nb).attrs
                          IN  "type" \in node_data.keys /\ node_data.type = "document")

get_related_documents(g, doc_name) ==
    IF ~Truthy(g) \/ ~HasNode(g, doc_name) THEN Return(<<>>)
    ELSE Return(related_of(g, doc_name))

\* doc_info.get('topics', [])
topics_of(doc_info) == IF "topics" \in doc_info.keys THEN doc_info.topics ELSE <<>>

get_document_topics(gd, doc_name) ==
    LET doc_info == get_document_info(gd, doc_name)
    IN  IF doc_info.raised THEN doc_info
        ELSE IF Truthy(doc_info.value) THEN Return(topics_of(doc_info.value))
        ELSE Return(<<>>)

topic_matches_exact(topic, doc_info) == InList(topic, topics_of(doc_info))

topic_matches(topic, doc_info) ==
    LET topics == [i \in 1..Len(topics_of(doc_info)) |-> lower(topics_of(doc_info)[i])]
    IN  InList(lower(topic), topics)

get_documents_by_topic(gd, topic) ==
    IF ~Truthy(gd) THEN Return(<<>>)
    ELSE IF gd.kind # "object" THEN Raise("AttributeError")
    ELSE LET matching == SelectSeq(documents_of(gd),
                                   LAMBDA d : topic_matches(topic, d.info))
         IN  Return([i \in 1..Len(matching) |-> matching[i].name])

all_topics(gd) ==
    UNION {Range(topics_of(documents_of(gd)[i].info)) : i \in 1..Len(documents_of(gd))}

matching_topics(gd, query) ==
    LET query_lower == lower(query)
    IN  {t \in all_topics(gd) : contains(query_lower, lower(t))}

search_topics(gd, query) ==
    IF ~Truthy(gd) THEN Return(<<>>)
    ELSE IF gd.kind # "object" THEN Raise("AttributeError")
    ELSE Return(sorted(matching_topics(gd, query)))

get_statistics(gd) ==
    IF ~Truthy(gd) THEN Return(EmptyStats)
    ELSE IF gd.kind # "object" THEN Raise("AttributeError")
    ELSE Return(IF "statistics" \in gd.keys THEN gd.statistics ELSE EmptyStats)

\* stats.get(key, 0)
stats_get(stats, key) == IF key \in stats.keys THEN stats[key] ELSE 0

NotLoadedText == [kind |-> "text", text |-> "Knowledge graph not loaded"]

\* one "  - doc: N words, M topics" line
summary_line(doc, doc_info) ==
    [doc |-> doc,
     words |-> IF "word_count" \in doc_info.keys THEN doc_info.word_count ELSE 0,
     topics |-> Len(topics_of(doc_info))]

summary_lines(gd) ==
    LET listed == SelectSeq(documents_of(gd), LAMBDA d : Truthy(d.info))
    IN  [i \in 1..Len(listed) |-> summary_line(listed[i].name, listed[i].info)]

get_graph_summary(gd) ==
    IF ~Truthy(gd) THEN Return(NotLoadedText)
    ELSE IF gd.kind # "object" THEN Raise("AttributeError")
    ELSE LET stats == get_statistics(gd).value
         IN  Return([kind |-> "summary",
                     total_documents |-> stats_get(stats, "total_documents"),
                     total_nodes |-> stats_get(stats, "total_nodes"),
                     total_edges |-> stats_get(stats, "total_edges"),
                     lines |-> summary_lines(gd)])

(***************************************************************************)
(* The chat orchestrator (rag_chatbot.py). The embedding service, the      *)
(* vector store and the retrieval chain are external: a call to one of     *)
(* them succeeds or raises, as the environment decides.                    *)
(***************************************************************************)
\* the chatbot's environment: the documents directory (whether it exists, and
\* its files in the order the file system lists them), the persisted index
\* ("absent", "ok", or "broken": Chroma raises on it) and the graph file
Env(docs_dir, listing, store_dir, graph_file) ==
    [docs_dir |-> docs_dir, listing |-> listing,
     store_dir |-> store_dir, graph_file |-> graph_file]

DirFile(stem, suffix) == [stem |-> stem, suffix |-> suffix]
DirFiles == { DirFile("ml_intro", "txt"), DirFile("nlp_basics", "txt"),
              DirFile("notes", "md") }

\* the directory's files in any listing order
Listings ==
    { l \in [1..Cardinality(DirFiles) -> DirFiles] :
        \A i, j \in DOMAIN l : i # j => l[i] # l[j] }

GoodGraphFile ==
    JsonFile(GraphObject(AllKeys, <<Doc1, Doc2>>, <<Edge12>>, BaseDocs, FullStats))
SparseGraphFile ==
    JsonFile(GraphObject(AllKeys, <<Doc1>>, <<>>,
                         <<DocEntry("doc2", EmptyDict),
                           DocEntry("doc1", DocInfo({"topics"}, <<ML>>, 0))>>,
                         EmptyStats))
ChatGraphFiles == { [kind |-> "missing"], GoodGraphFile, SparseGraphFile }

StoreDirs == {"absent", "ok", "broken"}

\* a listing of the documents directory
Listing0 == <<DirFile("nlp_basics", "txt"), DirFile("notes", "md"), DirFile("ml_intro", "txt")>>

\* the environments: every listing order where no graph file is found (the
\* listing is then what 'docs' prints), one listing with each graph file, and
\* no documents directory
Envs ==
    { Env(TRUE, l, s, [kind |-> "missing"]) : l \in Listings, s \in StoreDirs }
    \cup { Env(TRUE, Listing0, s, f) : s \in StoreDirs, f \in ChatGraphFiles }
    \cup { Env(FALSE, <<>>, s, f) : s \in StoreDirs, f \in ChatGraphFiles }

\* [f.stem for f in documents_dir.glob("*.txt")]: in listing order
dir_stems(e) ==
    LET txt == SelectSeq(e.listing, LAMBDA f : f.suffix = "txt")
    IN  [i \in 1..Len(txt) |-> txt[i].stem]

\* load_documents(): FileNotFoundError, or the documents read (how many)
load_documents(e) ==
    IF ~e.docs_dir THEN Raise("FileNotFoundError") ELSE Return(Len(dir_stems(e)))

\* create_vector_store(chunks): Chroma.from_documents embeds the chunks (the
\* service may raise) and persists the index in vector_store_dir
create_vector_store(e, service_ok) ==
    IF service_ok
    THEN [raised |-> "none", store |-> [kind |-> "Chroma", origin |-> "built"],
          env |-> [e EXCEPT !.store_dir = "ok"]]
    ELSE [raised |-> "ServiceError", store |-> None, env |-> e]

\* load_knowledge_graph(): a loader whose load() returned True, else None
load_knowledge_graph(f) ==
    LET out == load(f, None, None)
    IN  IF out.result
        THEN [kind |-> "loader", graph_data |-> out.graph_data, nx_graph |-> out.nx_graph]
        ELSE None

Chroma(origin) == [kind |-> "Chroma", origin |-> origin]

load_vector_store(e) ==
    IF e.store_dir = "absent" THEN None
    ELSE IF e.store_dir = "broken" THEN None
    ELSE Chroma("loaded")

Bot(kg, vs, qa) == [knowledge_graph |-> kg, vector_store |-> vs, qa_chain |-> qa]

SetupOutcome(bot, e, raised, built) ==
    [bot |-> bot, env |-> e, raised |-> raised, built |-> built]

\* the store setup() goes on with after "if not force_rebuild: load"
store_after_load(bot, e, force_rebuild) ==
    IF force_rebuild THEN bot.vector_store ELSE load_vector_store(e)

\* where a KeyboardInterrupt is delivered while setup() runs: nowhere; before
\* knowledge_graph is assigned (l.143); after it; after vector_store is
\* assigned from load_vector_store (l.150) and before an index is persisted;
\* after Chroma.from_documents persisted the index and before vector_store
\* is assigned (l.155); after that and before qa_chain is assigned (l.187);
\* after qa_chain is assigned (the print of l.198)
SetupInterrupts ==
    {"none", "start", "after_graph", "after_load", "after_create",
     "after_store", "after_chain"}

\* setup(force_rebuild); service_ok: Chroma.from_documents does not raise
setup(bot, e, force_rebuild, service_ok, interrupt) ==
    LET kg == load_knowledge_graph(e.graph_file)
        vs == store_after_load(bot, e, force_rebuild)
        created == create_vector_store(e, service_ok)
        build == vs = None
        store == IF build THEN created.store ELSE vs
        e3 == IF build THEN created.env ELSE e
        qa == [kind |-> "chain", retriever |-> store]
    IN  IF interrupt = "start"
        THEN SetupOutcome(bot, e, "KeyboardInterrupt", FALSE)
        ELSE IF interrupt = "after_graph"
        THEN SetupOutcome(Bot(kg, bot.vector_store, bot.qa_chain), e,
                          "KeyboardInterrupt", FALSE)
        ELSE IF interrupt = "after_load"
        THEN SetupOutcome(Bot(kg, vs, bot.qa_chain), e, "KeyboardInterrupt", FALSE)
        ELSE IF build /\ load_documents(e).raised
        THEN SetupOutcome(Bot(kg, vs, bot.qa_chain), e, load_documents(e).value, FALSE)
        ELSE IF build /\ created.raised # "none"
        THEN SetupOutcome(Bot(kg, vs, bot.qa_chain), created.env, created.raised, FALSE)
        ELSE IF build /\ interrupt = "after_create"
        THEN SetupOutcome(Bot(kg, vs, bot.qa_chain), e3, "KeyboardInterrupt", TRUE)
        ELSE IF interrupt = "after_store"
        THEN SetupOutcome(Bot(kg, store, bot.qa_chain), e3, "KeyboardInterrupt", build)
        ELSE IF interrupt = "after_chain"
        THEN SetupOutcome(Bot(kg, store, qa), e3, "KeyboardInterrupt", build)
        ELSE SetupOutcome(Bot(kg, store, qa), e3, "none", build)

\* what a call of the retrieval chain does: it returns an answer with its
\* source documents, raises a service error, or is interrupted
SourceLists == { <<>>, <<"ml_intro">>, <<"ml_intro", "nlp_basics", "ml_intro">> }
ChainOutcomes ==
    { [kind |-> "ok", sources |-> ss] : ss \in SourceLists }
    \cup { [kind |-> "ServiceError"], [kind |-> "KeyboardInterrupt"] }

\* where a KeyboardInterrupt is delivered during one pass of the loop: nowhere;
\* between input() returning and the dispatch; inside query() before it tests
\* qa_chain or calls the chain; in the try body after that (while the pass
\* prints); while 'except Exception' reports an error; at the jump back to
\* 'while True' once the pass is over. again: a second one is delivered while
\* 'except KeyboardInterrupt' prints the farewell.
InterruptPoints == {"none", "dispatch", "query", "handling", "reporting", "back_edge"}
Interrupt(at, again) == [at |-> at, again |-> again]
Interrupts == { Interrupt(at, again) : at \in InterruptPoints, again \in BOOLEAN }

QueryOutcome(raised, chain_calls, value) ==
    [raised |-> raised, chain_calls |-> chain_calls, value |-> value]

query_unchecked(qa, question, chain, interrupt) ==
    IF interrupt.at = "query" THEN QueryOutcome("KeyboardInterrupt", <<>>, None)
    ELSE IF chain.kind = "ok"
    THEN QueryOutcome("none", <<question>>,
                      [answer |-> "answer", sources |-> chain.sources])
    ELSE QueryOutcome(chain.kind, <<question>>, None)

\* query(question); an interrupt delivered before the chain is called leaves
\* query() as KeyboardInterrupt
query(qa, question, chain, interrupt) ==
    IF interrupt.at = "query" THEN QueryOutcome("KeyboardInterrupt", <<>>, None)
    ELSE IF qa = None THEN QueryOutcome("RuntimeError", <<>>, None)
    ELSE IF chain.kind = "ok"
    THEN QueryOutcome("none", <<question>>,
                      [answer |-> "answer", sources |-> chain.sources])
    ELSE QueryOutcome(chain.kind, <<question>>, None)

\* format_response: the sources once each, in order, numbered by position
format_response(result) ==
    LET ss == result.sources
        firsts == {i \in 1..Len(ss) : \A j \in 1..(i - 1) : ss[j] # ss[i]}
        RECURSIVE collect(_)
        collect(i) ==
            IF i > Len(ss) THEN <<>>
            ELSE (IF i \in firsts THEN <<[number |-> i, source |-> ss[i]]>> ELSE <<>>)
                 \o collect(i + 1)
    IN  [kind |-> "response", answer |-> result.answer, sources |-> collect(1)]

ExitCommands == { Str(<<"e","x","i","t">>), Str(<<"q","u","i","t">>), Str(<<"q">>) }
DocsCommand == Str(<<"d","o","c","s">>)
GraphCommand == Str(<<"g","r","a","p","h">>)

\* lines input() may return; 9 is \t, 11 is \x0b, 12 is \x0c, 13 is \r
Lines ==
    { <<>>, <<32, 9>>, <<13>>,
      Str(<<"q">>), Str(<<" ", "Q", " ">>), Str(<<"q", "?">>), Str(<<"q">>) \o <<12>>,
      Str(<<"E","X","I","T">>), Str(<<"e","x","i","t">>) \o <<13>>,
      Str(<<"Q","u","i","t">>) \o <<9>>,
      Str(<<"d","o","c","s">>), Str(<<" ","D","O","C","S"," ">>),
      <<11>> \o Str(<<"d","o","c","s">>) \o <<13>>,
      Str(<<"g","r","a","p","h">>), Str(<<"G","r","a","p","h">>),
      Str(<<" ","h","i"," ">>) }

\* questions passed to query() by a caller
Questions == { <<>>, Str(<<" ","h","i"," ">>), Str(<<"W","h","a","t"," ","i","s"," ","M","L","?">>) }

Step(ended, escaped, interrupted, branch, printed, query_calls, chain_calls) ==
    [ended |-> ended, escaped |-> escaped, interrupted |-> interrupted,
     branch |-> branch, printed |-> printed,
     query_calls |-> query_calls, chain_calls |-> chain_calls]

Goodbye == [kind |-> "text", text |-> "Goodbye!"]
ErrorText(e) == [kind |-> "error", text |-> e]

\* a pass that a KeyboardInterrupt leaves with nothing in chat_loop to catch
\* it: chat_loop is left by the exception, without the farewell
escaped_step(branch, printed, query_calls, chain_calls) ==
    Step(TRUE, TRUE, TRUE, branch, printed, query_calls, chain_calls)

\* except Exception as e: print the error and continue. An interrupt delivered
\* inside this clause, its continue included, is caught by nothing.
report(exception, interrupt, branch, query_calls, chain_calls) ==
    IF interrupt.at \in {"reporting", "back_edge"}
    THEN escaped_step(branch, ErrorText(exception), query_calls, chain_calls)
    ELSE Step(FALSE, FALSE, FALSE, branch, ErrorText(exception), query_calls, chain_calls)

\* except KeyboardInterrupt: print Goodbye and break. A second interrupt
\* delivered inside this clause is caught by nothing in chat_loop.
interrupted_step(interrupt, branch, query_calls, chain_calls) ==
    Step(TRUE, interrupt.again, TRUE, branch, Goodbye, query_calls, chain_calls)

\* what a command printed, unless it raised or was interrupted; its continue
\* is past the try body
command(branch, printed, interrupt) ==
    IF printed.kind = "error" THEN report(printed.text, interrupt, branch, <<>>, <<>>)
    ELSE IF interrupt.at = "handling" THEN interrupted_step(interrupt, branch, <<>>, <<>>)
    ELSE IF interrupt.at = "back_edge" THEN escaped_step(branch, printed, <<>>, <<>>)
    ELSE Step(FALSE, FALSE, FALSE, branch, printed, <<>>, <<>>)

\* the 'docs' command
list_docs(bot, e) ==
    IF bot.knowledge_graph # None
    THEN LET gd == bot.knowledge_graph.graph_data
             docs == get_documents(gd)
         IN  IF docs.raised THEN ErrorText(docs.value)
             ELSE LET listed == SelectSeq(documents_of(gd), LAMBDA d : Truthy(d.info))
                  IN  [kind |-> "docs_graph", count |-> Len(docs.value),
                       lines |-> [i \in 1..Len(listed) |->
                                    [doc |-> listed[i].name,
                                     words |-> summary_line(listed[i].name,
                                                            listed[i].info).words]]]
    ELSE [kind |-> "docs_dir", lines |-> dir_stems(e)]

\* the 'graph' command
show_graph(bot) ==
    IF bot.knowledge_graph # None
    THEN LET summary == get_graph_summary(bot.knowledge_graph.graph_data)
         IN  IF summary.raised THEN ErrorText(summary.value) ELSE summary.value
    ELSE [kind |-> "text", text |-> "Knowledge graph not available"]

\* a question: result = self.query(question); print(self.format_response(result))
ask(bot, question, chain, interrupt) ==
    LET result == query(bot.qa_chain, question, chain, interrupt)
    IN  IF result.raised = "KeyboardInterrupt"
        THEN interrupted_step(interrupt, "question", <<question>>, result.chain_calls)
        ELSE IF result.raised # "none"
        THEN report(result.raised, interrupt, "question", <<question>>, result.chain_calls)
        ELSE IF interrupt.at = "handling"
        THEN interrupted_step(interrupt, "question", <<question>>, result.chain_calls)
        ELSE IF interrupt.at = "back_edge"
        THEN escaped_step("question", format_response(result.value),
                          <<question>>, result.chain_calls)
        ELSE Step(FALSE, FALSE, FALSE, "question", format_response(result.value),
                  <<question>>, result.chain_calls)

is_exit_case_sensitive(question) == question \in ExitCommands

is_exit(question) == lower(question) \in ExitCommands

question_of(line) == strip(line)

\* the branch of the loop body that a stripped line selects
branch_of(question) ==
    IF question = <<>> THEN "empty"
    ELSE IF is_exit(question) THEN "exit"
    ELSE IF lower(question) = DocsCommand THEN "docs"
    ELSE IF lower(question) = GraphCommand THEN "graph"
    ELSE "question"

\* one pass of the while loop of chat_loop on the line that input() returned
chat_line(bot, e, line, chain, interrupt) ==
    LET question == question_of(line)
        branch == branch_of(question)
    IN  IF interrupt.at = "dispatch"
        THEN interrupted_step(interrupt, branch, <<>>, <<>>)
        ELSE IF branch = "empty"
        THEN IF interrupt.at = "back_edge"
             THEN escaped_step("empty", None, <<>>, <<>>)
             ELSE Step(FALSE, FALSE, FALSE, "empty", None, <<>>, <<>>)
        ELSE IF branch = "exit"
        THEN IF interrupt.at = "handling"
             THEN interrupted_step(interrupt, "exit", <<>>, <<>>)
             ELSE Step(TRUE, FALSE, FALSE, "exit", Goodbye, <<>>, <<>>)
        ELSE IF branch = "docs" THEN command("docs", list_docs(bot, e), interrupt)
        ELSE IF branch = "graph" THEN command("graph", show_graph(bot), interrupt)
        ELSE ask(bot, question, chain, interrupt)

\* one pass of the loop in which input() raised
chat_raise(exception, interrupt) ==
    IF exception = "KeyboardInterrupt"
    THEN interrupted_step(interrupt, "interrupt", <<>>, <<>>)
    ELSE report(exception, interrupt, "error", <<>>, <<>>)

(***************************************************************************)
(* The accessor as a state machine: one load(), queries at any time.       *)
(***************************************************************************)
Call(op, arg, outcome) ==
    [op |-> op, arg |-> arg, raised |-> outcome.raised, value |-> outcome.value]

NoCall == [op |-> "none", arg |-> None, raised |-> FALSE, value |-> None]

BotIdle ==
    /\ env = Env(FALSE, <<>>, "absent", [kind |-> "missing"])
    /\ knowledge_graph = None
    /\ vector_store = None
    /\ qa_chain = None
    /\ pc = "idle"
    /\ setup_completed = FALSE
    /\ chain_created = FALSE
    /\ last = [op |-> "init"]

Init ==
    /\ file = Unread
    /\ graph_data = None
    /\ nx_graph = None
    /\ loaded = "not_called"
    /\ ret = NoCall
    /\ BotIdle

\* load(), on a fresh accessor or on one that has called load() before
Load ==
    /\ file' \in IF loaded = "not_called" THEN Files ELSE ReloadFiles \cup {file}
    /\ LET out == load(file', graph_data, nx_graph)
       IN  /\ graph_data' = out.graph_data
           /\ nx_graph' = out.nx_graph
           /\ loaded' = IF out.result THEN "True" ELSE "False"
           /\ ret' = Call("load", None, Return(out.result))
    /\ UNCHANGED botvars

GetDocuments ==
    /\ ret' = Call("get_documents", None, get_documents(graph_data))
    /\ UNCHANGED <<file, graph_data, nx_graph, loaded, botvars>>

GetDocumentInfo ==
    /\ \E d \in DocNames :
         ret' = Call("get_document_info", d, get_document_info(graph_data, d))
    /\ UNCHANGED <<file, graph_data, nx_graph, loaded, botvars>>

GetRelatedDocuments ==
    /\ \E d \in DocNames :
         ret' = Call("get_related_documents", d, get_related_documents(nx_graph, d))
    /\ UNCHANGED <<file, graph_data, nx_graph, loaded, botvars>>

GetDocumentTopics ==
    /\ \E d \in DocNames :
         ret' = Call("get_document_topics", d, get_document_topics(graph_data, d))
    /\ UNCHANGED <<file, graph_data, nx_graph, loaded, botvars>>

GetDocumentsByTopic ==
    /\ \E q \in Queries :
         ret' = Call("get_documents_by_topic", q, get_documents_by_topic(graph_data, q))
    /\ UNCHANGED <<file, graph_data, nx_graph, loaded, botvars>>

SearchTopics ==
    /\ \E q \in Queries :
         ret' = Call("search_topics", q, search_topics(graph_data, q))
    /\ UNCHANGED <<file, graph_data, nx_graph, loaded, botvars>>

GetStatistics ==
    /\ ret' = Call("get_statistics", None, get_statistics(graph_data))
    /\ UNCHANGED <<file, graph_data, nx_graph, loaded, botvars>>

GetGraphSummary ==
    /\ ret' = Call("get_graph_summary", None, get_graph_summary(graph_data))
    /\ UNCHANGED <<file, graph_data, nx_graph, loaded, botvars>>

Next ==
    \/ Load
    \/ GetDocuments
    \/ GetDocumentInfo
    \/ GetRelatedDocuments
    \/ GetDocumentTopics
    \/ GetDocumentsByTopic
    \/ SearchTopics
    \/ GetStatistics
    \/ GetGraphSummary

Spec == Init /\ [][Next]_vars

(***************************************************************************)
(* The chatbot as a state machine: setup() and query() called on the       *)
(* constructed chatbot, then chat_loop() reading console events.           *)
(***************************************************************************)
TheBot == Bot(knowledge_graph, vector_store, qa_chain)

KGIdle ==
    /\ file = Unread
    /\ graph_data = None
    /\ nx_graph = None
    /\ loaded = "not_called"
    /\ ret = NoCall

\* RAGChatbot.__init__ with the API key set
InitChat ==
    /\ KGIdle
    /\ env \in Envs
    /\ knowledge_graph = None
    /\ vector_store = None
    /\ qa_chain = None
    /\ pc = "idle"
    /\ setup_completed = FALSE
    /\ chain_created = FALSE
    /\ last = [op |-> "init"]

\* no call on the chatbot is in progress: none was made yet, or the last one
\* (chat_loop included) has returned or raised
Callable == pc \in {"idle", "done"}

Setup ==
    /\ Callable
    /\ \E force_rebuild \in BOOLEAN, service_ok \in BOOLEAN, interrupt \in SetupInterrupts :
         LET out == setup(TheBot, env, force_rebuild, service_ok, interrupt)
         IN  /\ knowledge_graph' = out.bot.knowledge_graph
             /\ vector_store' = out.bot.vector_store
             /\ qa_chain' = out.bot.qa_chain
             /\ env' = out.env
             /\ setup_completed' = (setup_completed \/ out.raised = "none")
             /\ chain_created' = (chain_created \/ out.raised = "none"
                                    \/ (out.raised = "KeyboardInterrupt"
                                          /\ interrupt = "after_chain"))
             /\ last' = [op |-> "setup", force_rebuild |-> force_rebuild,
                         interrupt |-> interrupt,
                         raised |-> out.raised, built |-> out.built,
                         store_before |-> vector_store,
                         persisted |-> load_vector_store(env)]
    /\ pc' = "idle"
    /\ UNCHANGED kgvars

Query ==
    /\ Callable
    /\ \E question \in Questions, chain \in ChainOutcomes,
          interrupt \in {Interrupt("none", FALSE), Interrupt("query", FALSE)} :
         LET out == query(qa_chain, question, chain, interrupt)
         IN  last' = [op |-> "query", question |-> question, interrupt |-> interrupt,
                      raised |-> out.raised,
                      chain_calls |-> out.chain_calls, value |-> out.value]
    /\ pc' = "idle"
    /\ UNCHANGED <<env, knowledge_graph, vector_store, qa_chain, setup_completed,
                   chain_created, kgvars>>

\* load_documents() called on the chatbot; a KeyboardInterrupt may end it
LoadDocuments ==
    /\ Callable
    /\ \E interrupted \in BOOLEAN :
         last' = [op |-> "load_documents",
                  raised |-> IF interrupted THEN "KeyboardInterrupt"
                             ELSE IF load_documents(env).raised
                             THEN load_documents(env).value ELSE "none"]
    /\ pc' = "idle"
    /\ UNCHANGED <<env, knowledge_graph, vector_store, qa_chain, setup_completed,
                   chain_created, kgvars>>

\* load_vector_store() called on the chatbot: it returns the store or None; a
\* KeyboardInterrupt is not caught by its 'except Exception'
LoadVectorStore ==
    /\ Callable
    /\ \E interrupted \in BOOLEAN :
         last' = [op |-> "load_vector_store",
                  raised |-> IF interrupted THEN "KeyboardInterrupt" ELSE "none",
                  value |-> IF interrupted THEN None ELSE load_vector_store(env)]
    /\ pc' = "idle"
    /\ UNCHANGED <<env, knowledge_graph, vector_store, qa_chain, setup_completed,
                   chain_created, kgvars>>

\* create_vector_store(chunks) called on the chatbot: it returns the store
\* (self.vector_store is not assigned) and persists the index; a
\* KeyboardInterrupt may end it before or after the index is persisted
CreateVectorStore ==
    /\ Callable
    /\ \E service_ok \in BOOLEAN, interrupt \in {"none", "before", "after"} :
         LET out == create_vector_store(env, service_ok)
         IN  IF interrupt = "before"
             THEN /\ env' = env
                  /\ last' = [op |-> "create_vector_store",
                              raised |-> "KeyboardInterrupt", value |-> None]
             ELSE IF interrupt = "after" /\ out.raised = "none"
             THEN /\ env' = out.env
                  /\ last' = [op |-> "create_vector_store",
                              raised |-> "KeyboardInterrupt", value |-> None]
             ELSE /\ env' = out.env
                  /\ last' = [op |-> "create_vector_store", raised |-> out.raised,
                              value |-> out.store]
    /\ pc' = "idle"
    /\ UNCHANGED <<knowledge_graph, vector_store, qa_chain, setup_completed,
                   chain_created, kgvars>>

\* chat_loop() is called and prints its banner; a KeyboardInterrupt delivered
\* there is outside the try and leaves chat_loop before any prompt
ChatLoop ==
    /\ Callable
    /\ \E interrupted \in BOOLEAN :
         /\ pc' = IF interrupted THEN "done" ELSE "prompt"
         /\ last' = [op |-> "chat_loop", interrupted |-> interrupted,
                     escaped |-> interrupted]
    /\ UNCHANGED <<env, knowledge_graph, vector_store, qa_chain, setup_completed,
                   chain_created, kgvars>>

ChatStep(event, line, step) ==
    /\ pc' = IF step.ended THEN "done" ELSE "prompt"
    /\ last' = [op |-> "input", event |-> event, line |-> line, step |-> step]
    /\ UNCHANGED <<env, knowledge_graph, vector_store, qa_chain, setup_completed,
                   chain_created, kgvars>>

ChatLine ==
    /\ pc = "prompt"
    /\ \E line \in Lines, chain \in ChainOutcomes, interrupt \in Interrupts :
         ChatStep("line", line, chat_line(TheBot, env, line, chain, interrupt))

ChatInterrupt ==
    /\ pc = "prompt"
    /\ \E interrupt \in Interrupts :
         ChatStep("KeyboardInterrupt", <<>>, chat_raise("KeyboardInterrupt", interrupt))

ChatEOF ==
    /\ pc = "prompt"
    /\ \E interrupt \in Interrupts :
         ChatStep("EOFError", <<>>, chat_raise("EOFError", interrupt))

NextChat ==
    \/ Setup
    \/ Query
    \/ LoadDocuments
    \/ LoadVectorStore
    \/ CreateVectorStore
    \/ ChatLoop
    \/ ChatLine
    \/ ChatInterrupt
    \/ ChatEOF

SpecChat == InitChat /\ [][NextChat]_vars

(***************************************************************************)
(* Properties of the knowledge-graph accessor (checked under Spec).        *)
(***************************************************************************)
NoDuplicates(xs) == \A i, j \in 1..Len(xs) : i # j => xs[i] # xs[j]

ListOps ==
    {"get_documents", "get_related_documents", "get_document_topics",
     "get_documents_by_topic", "search_topics"}

\* C1: whenever load() returns False the accessor is left unloaded, with no
\* partial graph: graph_data and nx_graph hold nothing a query can see, and
\* every query gives its empty result ([] / None / {} / the "not loaded" text)
\* without raising.
C1_FailedLoadLeavesUnloaded ==
    loaded = "False" =>
        /\ ~Truthy(graph_data)
        /\ ~Truthy(nx_graph)
        /\ ~ret.raised
        /\ (ret.op \in ListOps => ret.value = <<>>)
        /\ (ret.op = "get_document_info" => ret.value = None)
        /\ (ret.op = "get_statistics" => ret.value = EmptyStats)
        /\ (ret.op = "get_graph_summary" => ret.value = NotLoadedText)

\* the ids joined to name by an edge entry of the input file
FileNeighbors(name) ==
    {e.target : e \in {x \in Range(file.value.edges) : x.source = name}}
    \cup {e.source : e \in {x \in Range(file.value.edges) : x.target = name}}

\* name is a node of the graph: a node entry or an edge entry names it
FileHasNode(name) ==
    \/ \E n \in Range(file.value.nodes) : n.id = name
    \/ \E e \in Range(file.value.edges) : name \in {e.source, e.target}

HasDocumentType(G, n) ==
    HasNode(G, n) /\ "type" \in NodeAt(G, n).attrs.keys
                  /\ NodeAt(G, n).attrs.type = "document"

\* C2: on a loaded graph get_related_documents(name) returns, each once, exactly
\* the neighbors of name whose node type is "document", and [] for a name that
\* is no node of the graph; it never raises. doc1 -- doc2, both of type
\* document, gives ["doc2"] for "doc1".
C2_RelatedAreDocumentNeighbors ==
    (loaded = "True" /\ ret.op = "get_related_documents") =>
        /\ ~ret.raised
        /\ NoDuplicates(ret.value)
        /\ Range(ret.value) =
             {n \in FileNeighbors(ret.arg) : HasDocumentType(nx_graph, n)}
        /\ (~FileHasNode(ret.arg) => ret.value = <<>>)
        /\ (/\ file.value.nodes = <<Doc1, Doc2>>
            /\ file.value.edges = <<Edge12>>
            /\ ret.arg = "doc1") => ret.value = <<"doc2">>

\* C2 witness: doc1 has the neighbors t1 (no type) and doc2 (a document), and
\* get_related_documents("doc1") returned ["doc2"]; and a name that is only a
\* key of 'documents' got [].
C2_Witness ==
    /\ loaded = "True"
    /\ ret.op = "get_related_documents"
    /\ file.value.nodes = <<Doc1, Doc2>>
    /\ file.value.edges = <<Edge1T, Edge12>>
    /\ ret.arg = "doc1"
    /\ ret.value = <<"doc2">>

\* C3: search_topics(query) returns the topics that contain query as a
\* case-insensitive substring, sorted, with case variants of a topic collapsed
\* to one representative: no two elements are equal when lower-cased.
C3_SearchCollapsesCaseVariants ==
    (ret.op = "search_topics" /\ ~ret.raised) =>
        /\ \A i \in 1..Len(ret.value) : contains(lower(ret.arg), lower(ret.value[i]))
        /\ \A i \in 1..(Len(ret.value) - 1) : str_lt(ret.value[i], ret.value[i + 1])
        /\ \A i, j \in 1..Len(ret.value) :
             i # j => lower(ret.value[i]) # lower(ret.value[j])

\* the documents, in 'documents' order, one of whose topics equals t when both
\* are lower-cased
DocsWithTopic(t) ==
    LET ds == SelectSeq(graph_data.documents,
                        LAMBDA d : \E x \in Range(d.info.topics) : lower(x) = lower(t))
    IN  [i \in 1..Len(ds) |-> ds[i].name]

\* C4: topic matching is case-insensitive: queries equal after lower-casing get
\* the same get_documents_by_topic and the same search_topics result, and
\* get_documents_by_topic(t) is exactly the documents, in order, with a topic
\* equal to t after lower-casing both.
C4_TopicMatchingIgnoresCase ==
    loaded = "True" =>
        /\ ret.op = "get_documents_by_topic" =>
             /\ ~ret.raised
             /\ ret.value = DocsWithTopic(ret.arg)
             /\ \A q \in Queries :
                  lower(q) = lower(ret.arg) =>
                      get_documents_by_topic(graph_data, q).value = ret.value
        /\ ret.op = "search_topics" =>
             /\ ~ret.raised
             /\ \A q \in Queries :
                  lower(q) = lower(ret.arg) =>
                      search_topics(graph_data, q).value = ret.value

\* C4 witness: doc1 has the topics ["ML", "NLP"] and
\* get_documents_by_topic("ml") returned ["doc1"].
C4_Witness ==
    /\ loaded = "True"
    /\ ret.op = "get_documents_by_topic"
    /\ ret.arg = Str(<<"m", "l">>)
    /\ graph_data.documents = BaseDocs
    /\ ret.value = <<"doc1">>

\* the node entries of the input file with the given id, in input order
EntriesOf(id) == SelectSeq(file.value.nodes, LAMBDA n : n.id = id)

\* C5 as stated: of two node entries with the same id the first wins: the
\* node's attributes are those of the first entry.
C5_FirstNodeEntryWins ==
    loaded = "True" =>
        \A i \in 1..Len(nx_graph.nodes) :
            LET node == nx_graph.nodes[i]
            IN  EntriesOf(node.id) # <<>> => node.attrs = Attrs(EntriesOf(node.id)[1])

\* C5 amended: node ids are unique within a loaded graph and the last entry
\* wins: a node's type is that of the last entry with its id that gives a type
\* (an entry without a type leaves the type of an earlier entry in place).
C5_LastNodeEntryWins ==
    loaded = "True" =>
        /\ \A i, j \in 1..Len(nx_graph.nodes) :
             i # j => nx_graph.nodes[i].id # nx_graph.nodes[j].id
        /\ \A i \in 1..Len(nx_graph.nodes) :
             LET node == nx_graph.nodes[i]
                 typed == SelectSeq(EntriesOf(node.id), LAMBDA n : "type" \in n.keys)
             IN  /\ ("type" \in node.attrs.keys) = (typed # <<>>)
                 /\ typed # <<>> => node.attrs.type = typed[Len(typed)].type

\* C5 witness: the input names doc2 twice, first as a topic and then as a
\* document, and get_related_documents("doc1") reported doc2.
C5_Witness ==
    /\ loaded = "True"
    /\ file.value.nodes = <<Doc2Topic, Doc2>>
    /\ file.value.edges = <<Edge12>>
    /\ ret.op = "get_related_documents"
    /\ ret.arg = "doc1"
    /\ ret.value = <<"doc2">>

\* C6: on a loaded graph get_graph_summary() has exactly one line per document
\* of get_documents(), in that order, with its word count and number of topics
\* (0 when missing); no document is omitted, not even one with an empty record.
C6_SummaryListsEveryDocument ==
    (loaded = "True" /\ ret.op = "get_graph_summary") =>
        LET docs == graph_data.documents
        IN  /\ ~ret.raised
            /\ Len(ret.value.lines) = Len(docs)
            /\ \A i \in 1..Len(docs) :
                 ret.value.lines[i] = summary_line(docs[i].name, docs[i].info)

(***************************************************************************)
(* Properties of the chat orchestrator (checked under SpecChat).           *)
(***************************************************************************)
\* query and the chat loop answer "not set up" exactly when done is FALSE, then
\* without calling the chain; otherwise the chain is called and what query
\* returns has an answer and sources. (A query that an interrupt ends before
\* it has tested qa_chain does neither.)
NotSetUpIffNot(done) ==
    /\ last.op = "query" =>
         /\ last.raised = "RuntimeError" => ~done
         /\ ~done =>
              /\ last.raised \in {"RuntimeError", "KeyboardInterrupt"}
              /\ last.interrupt.at # "query" => last.raised = "RuntimeError"
              /\ last.chain_calls = <<>>
              /\ last.value = None
         /\ (done /\ last.interrupt.at # "query") =>
              last.chain_calls = <<last.question>>
         /\ last.raised = "none" => DOMAIN last.value = {"answer", "sources"}
    /\ (last.op = "input" /\ last.step.branch = "question") =>
         /\ last.step.printed = ErrorText("RuntimeError") => ~done
         /\ (~done /\ ~last.step.interrupted) =>
              last.step.printed = ErrorText("RuntimeError")
         /\ ~done => last.step.chain_calls = <<>>

\* a setup that needs the documents directory and does not find it raises
\* FileNotFoundError to its caller (unless an interrupt ended it before)
MissingDirectoryIsRaised ==
    (last.op = "setup" /\ ~env.docs_dir
       /\ last.interrupt \notin {"start", "after_graph", "after_load"}) =>
         (last.raised = "FileNotFoundError") =
             (IF last.force_rebuild THEN last.store_before = None
                                    ELSE last.persisted = None)

\* C7: query fails with "not set up" exactly when no setup() call has
\* completed; it then does not invoke the chain. After a completed setup it
\* invokes the chain, and what it returns has an answer and sources. A setup
\* that fails for a missing documents directory raises to its caller.
C7_NotSetUpIffNoSetupCompleted ==
    /\ NotSetUpIffNot(setup_completed)
    /\ MissingDirectoryIsRaised

\* C7 amended: query fails with "not set up" exactly when no setup() call has
\* assigned the retrieval chain: every setup that returned has assigned it,
\* and so has a setup that an interrupt ended after the assignment; a setup
\* that ended earlier (missing documents directory, service error, earlier
\* interrupt) has not, and nothing resets the chain.
C7_NotSetUpIffNoChainCreated ==
    /\ (qa_chain = None) = ~chain_created
    /\ setup_completed => chain_created
    /\ last.op = "setup" =>
         /\ last.raised = "none" => chain_created
         /\ (~chain_created) =>
              last.raised \in {"FileNotFoundError", "ServiceError", "KeyboardInterrupt"}
         /\ (chain_created /\ ~setup_completed) =>
              last.raised \in {"FileNotFoundError", "ServiceError", "KeyboardInterrupt"}
    /\ NotSetUpIffNot(chain_created)
    /\ MissingDirectoryIsRaised

\* C7 witness: the only setup() call was ended by an interrupt after it had
\* assigned the chain, and the query after it called the chain and returned
\* an answer.
C7_Witness ==
    /\ last.op = "query"
    /\ last.raised = "none"
    /\ last.chain_calls = <<last.question>>
    /\ chain_created
    /\ ~setup_completed

\* C8: every completed setup(force_rebuild=True) builds a new vector index,
\* whatever store the chatbot already holds, and setup(force_rebuild=False)
\* builds one exactly when no persisted index could be loaded.
C8_ForceRebuildAlwaysBuilds ==
    (last.op = "setup" /\ last.raised = "none") =>
        last.built = (last.force_rebuild \/ last.persisted = None)

\* the console event recorded in last ends the loop: an exit command or an
\* interrupt (at the prompt, while the input is handled, or at the jump back)
Terminating ==
    \/ last.event = "KeyboardInterrupt"
    \/ last.event = "line" /\ lower(strip(last.line)) \in ExitCommands
    \/ last.step.interrupted

\* C9: chat_loop ends exactly on a line that is 'exit', 'quit' or 'q' after
\* trimming and lower-casing, or on an interrupt; after every other event,
\* errors included, it prompts again, and no exception leaves chat_loop. (Only
\* an interrupt leaves it as an exception: one delivered while the banner is
\* printed, at the jump back to the prompt, while an error is being reported,
\* or a second one while the farewell is printed.)
C9_LoopEndsOnlyOnExitOrInterrupt ==
    /\ pc = "done" => last.op \in {"chat_loop", "input"}
    /\ pc = "prompt" => last.op \in {"chat_loop", "input"}
    /\ last.op = "chat_loop" =>
         /\ (pc = "done") = last.interrupted
         /\ (pc = "prompt") = ~last.interrupted
         /\ last.escaped = last.interrupted
    /\ last.op = "input" =>
         /\ (pc = "done") = Terminating
         /\ (pc = "prompt") = ~Terminating
         /\ last.step.ended = Terminating
         /\ last.step.escaped => last.step.interrupted
         /\ (last.event = "line" /\ last.step.branch = "question"
                /\ ~last.step.interrupted) =>
              last.step.printed.kind \in {"error", "response"}

\* C9 witness: a question was asked of a chatbot that is not set up; the error
\* was reported and the loop prompts again.
C9_Witness ==
    /\ pc = "prompt"
    /\ last.op = "input"
    /\ last.event = "line"
    /\ last.step.printed = ErrorText("RuntimeError")

\* the .txt files of the documents directory
TxtStems == {f.stem : f \in {g \in Range(env.listing) : g.suffix = "txt"}}

\* C10: chat_loop dispatches on the trimmed, lower-cased line: an empty line
\* does nothing; 'docs' and 'graph' never call query, 'docs' listing the
\* accessor's documents (one line for each document of get_documents(), in
\* that order) when a graph is loaded and the files of the documents directory
\* otherwise, 'graph' printing the summary or "not available"; any other line
\* that is no exit command calls query once with the trimmed line. (What a
\* pass prints and calls is what it does when no interrupt cuts it short.)
C10_DispatchByTrimmedLowercasedLine ==
    (last.op = "input" /\ last.event = "line") =>
        LET t == lower(strip(last.line))
            step == last.step
        IN  /\ t = <<>> =>
                 /\ step.query_calls = <<>>
                 /\ ~step.interrupted => step.printed = None
            /\ t \in ExitCommands => step.query_calls = <<>>
            /\ t = DocsCommand =>
                 /\ step.query_calls = <<>>
                 /\ ~step.interrupted => step.printed.kind # "error"
                 /\ (knowledge_graph # None /\ ~step.interrupted) =>
                      /\ step.printed.kind = "docs_graph"
                      /\ step.printed.count =
                           Len(get_documents(knowledge_graph.graph_data).value)
                      /\ [i \in 1..Len(step.printed.lines) |-> step.printed.lines[i].doc]
                           = get_documents(knowledge_graph.graph_data).value
                 /\ (knowledge_graph = None /\ ~step.interrupted) =>
                      /\ step.printed.kind = "docs_dir"
                      /\ NoDuplicates(step.printed.lines)
                      /\ Range(step.printed.lines) = TxtStems
            /\ t = GraphCommand =>
                 /\ step.query_calls = <<>>
                 /\ (knowledge_graph # None /\ ~step.interrupted) =>
                      step.printed = get_graph_summary(knowledge_graph.graph_data).value
                 /\ (knowledge_graph = None /\ ~step.interrupted) =>
                      step.printed.text = "Knowledge graph not available"
            /\ t \notin ({<<>>, DocsCommand, GraphCommand} \cup ExitCommands) =>
                 /\ step.query_calls \in {<<>>, <<strip(last.line)>>}
                 /\ ~step.interrupted => step.query_calls = <<strip(last.line)>>

====
